---- MODULE Spec2Model ----
(***************************************************************************)
(* Model of src/src/TrafficLight.cpp: MessageQueue<T> (receive, send,      *)
(* clear) and TrafficLight (waitForGreen, getCurrentPhase, simulate,       *)
(* cycleThroughPhases).                                                    *)
(*                                                                         *)
(* Threads: "cyc" runs cycleThroughPhases, "snd" is the thread that         *)
(* executes send (the std::async task of line 110, or, where the queue is  *)
(* taken alone, a producer that calls send and clear in turn), and the     *)
(* NumReceivers threads "rcv" call receive, directly or through            *)
(* waitForGreen.                                                           *)
(*                                                                         *)
(* clear() takes no lock (line 42), so it can run between the predicate of *)
(* receive() and its back() and pop_back(). Both are then undefined on the *)
(* empty vector: back() yields any value, pop_back() leaves a vector whose *)
(* end pointer precedes begin (up to MaxJunk garbage elements here).       *)
(*                                                                         *)
(* A queue element is [v, id]: v is the T value, id a label (not in the    *)
(* program) naming the push_back that inserted it; id 0 marks a value no   *)
(* push_back inserted (memory read outside the vector's elements).         *)
(***************************************************************************)
EXTENDS Integers, Sequences, FiniteSets, TLC

\* ------------------------------------------------------------------ bounds
NumReceivers == 2
MaxIds == 4
MaxJunk == 2
MaxSends == 3
MaxPending == 2
MaxShared == 2
MaxEvents == 2

\* ------------------------------------------------------------------ values
Red == "red"
Green == "green"
Phase == {Red, Green}
Junk == "junk"

\* thread names
Cyc == <<"cyc", 0>>
Snd == <<"snd", 0>>
Receivers == {<<"rcv", i>> : i \in 1..NumReceivers}
NoThread == <<"none", 0>>
NoMsg == [v |-> "none", id |-> 0]
JunkMsg == [v |-> Junk, id |-> 0]
Ids == 1..MaxIds

VARIABLES
  _messages,      \* std::vector<T> _messages (back of the vector = end of the sequence)
  _mutex,         \* owner of std::mutex _mutex, or NoThread
  _condition,     \* threads blocked inside _condition.wait
  _currentPhase,  \* TrafficLight::_currentPhase
  pc,             \* position of every thread
  arg,            \* send's parameter msg
  msg,            \* receive's local msg, per receiver
  currPhase,      \* value returned by receive to its caller, per receiver
  observed,       \* value getCurrentPhase returned to its caller, per calling thread
  lastSent,       \* label: the element most recently pushed by send
  nSend,          \* label: number of send() calls completed
  nRecv,          \* label: number of receive() calls returned
  pushed,         \* label: the elements send() has inserted so far
  received,       \* label: the values receive() has returned so far, in order
  cleared,        \* label: whether clear() has completed, and what had been inserted before it last did
  atCall,         \* label: cleared, as it was when the receiver called receive()
  cycle           \* label: whether a toggle has happened, and the clears, sends started and sends completed since the last one

count == <<nSend, nRecv, pushed, received, cleared, atCall, cycle>>
vars == <<_messages, _mutex, _condition, _currentPhase, pc, arg, msg, currPhase,
          observed, lastSent, nSend, nRecv, pushed, received, cleared, atCall, cycle>>

\* ------------------------------------------------------------------ helpers
Min(a, b) == IF a <= b THEN a ELSE b
Last(s) == s[Len(s)]
Front(s) == SubSeq(s, 1, Len(s) - 1)
IdsOf(s) == {s[i].id : i \in 1..Len(s)}

\* ids of elements that are still in the container or held by some thread, and
\* (where the run keeps the record pushed) of every element inserted before
InUse ==
  IdsOf(_messages) \cup {arg.id} \cup {msg[r].id : r \in Receivers}
    \cup {currPhase[r].id : r \in Receivers} \cup {lastSent.id}
    \cup {m.id : m \in pushed}

FreeIds == Ids \ InUse

\* the smallest label no element in the container or in a thread's hands carries
FreshId == CHOOSE i \in FreeIds : \A j \in FreeIds : i <= j

\* what a read of memory that holds no element can yield
Garbage == {[v |-> x, id |-> 0] : x \in Phase \cup {Junk}}

\* the vector after pop_back() on an empty vector: the end pointer is stepped
\* below begin (empty() is false, size() wraps, the elements are garbage), or a
\* racing clear()'s store of the end pointer lands last (empty)
RECURSIVE JunkSeq(_)
JunkSeq(n) == IF n = 0 THEN <<>> ELSE Append(JunkSeq(n - 1), JunkMsg)
Undefined == {JunkSeq(n) : n \in 0..MaxJunk}

\* _messages.empty()
empty == _messages = <<>>

\* a back() that reads the oldest element instead of the newest
back_front == IF empty THEN Garbage ELSE {_messages[1]}

\* _messages.back(): undefined on an empty vector, and on garbage elements
back ==
  IF empty \/ Last(_messages).id = 0 THEN Garbage ELSE {Last(_messages)}

\* a pop_back() that leaves the last element in place
pop_back_keeps == {_messages}

\* _messages.pop_back(): undefined on an empty vector
pop_back ==
  IF empty THEN Undefined ELSE {Front(_messages)}

\* _messages.push_back(m)
push_back(m) == Append(_messages, m)

\* a toggle that only ever turns the light green
ToggleToGreen(p) == Green

\* the toggle of line 105
Toggle(p) == IF p = Red THEN Green ELSE Red

Init ==
  /\ _messages = <<>>
  /\ _mutex = NoThread
  /\ _condition = {}
  /\ _currentPhase = Red
  /\ pc = [t \in {Cyc, Snd} \cup Receivers |->
             IF t = Cyc THEN "off" ELSE IF t = Snd THEN "s_idle" ELSE "idle"]
  /\ arg = NoMsg
  /\ msg = [r \in Receivers |-> NoMsg]
  /\ currPhase = [r \in Receivers |-> NoMsg]
  /\ observed = [r \in Receivers |-> "none"]
  /\ lastSent = NoMsg
  /\ nSend = 0
  /\ nRecv = 0
  /\ pushed = {}
  /\ received = <<>>
  /\ cleared = [done |-> FALSE, old |-> {}]
  /\ atCall = [r \in Receivers |-> [done |-> FALSE, old |-> {}]]
  /\ cycle = [toggled |-> FALSE, clears |-> 0, sends |-> 0, dones |-> 0]

\* ------------------------------------------------------------------ MessageQueue<T>::receive
\* line 15: std::unique_lock<std::mutex> ulock(_mutex)
ReceiveLock(r) ==
  /\ pc[r] = "r_lock"
  /\ _mutex = NoThread
  /\ _mutex' = r
  /\ pc' = [pc EXCEPT ![r] = "r_pred"]
  /\ UNCHANGED <<_messages, _condition, _currentPhase, arg, msg, currPhase, observed, lastSent>>

\* a wait that blocks with the mutex still locked
ReceivePredHolding(r) ==
  /\ pc[r] = "r_pred"
  /\ IF ~empty
       THEN /\ pc' = [pc EXCEPT ![r] = "r_back"]
            /\ UNCHANGED _condition
       ELSE /\ pc' = [pc EXCEPT ![r] = "r_wait"]
            /\ _condition' = _condition \cup {r}
  /\ UNCHANGED <<_messages, _mutex, _currentPhase, arg, msg, currPhase, observed, lastSent>>

\* line 16: the predicate of _condition.wait, evaluated with the mutex held;
\* when it is false the mutex is released and the thread blocks
ReceivePred(r) ==
  /\ pc[r] = "r_pred"
  /\ IF ~empty
       THEN /\ pc' = [pc EXCEPT ![r] = "r_back"]
            /\ UNCHANGED <<_mutex, _condition>>
       ELSE /\ pc' = [pc EXCEPT ![r] = "r_wait"]
            /\ _mutex' = NoThread
            /\ _condition' = _condition \cup {r}
  /\ UNCHANGED <<_messages, _currentPhase, arg, msg, currPhase, observed, lastSent>>

\* line 16: a wait may end without a notification (spurious wakeup)
SpuriousWakeup(r) ==
  /\ pc[r] = "r_wait"
  /\ r \in _condition
  /\ _condition' = _condition \ {r}
  /\ pc' = [pc EXCEPT ![r] = "r_woken"]
  /\ UNCHANGED <<_messages, _mutex, _currentPhase, arg, msg, currPhase, observed, lastSent>>

\* line 16: a woken thread takes the mutex again and re-evaluates the predicate
ReceiveRelock(r) ==
  /\ pc[r] = "r_woken"
  /\ _mutex = NoThread
  /\ _mutex' = r
  /\ pc' = [pc EXCEPT ![r] = "r_pred"]
  /\ UNCHANGED <<_messages, _condition, _currentPhase, arg, msg, currPhase, observed, lastSent>>

\* line 19: T msg = std::move(_messages.back())
ReceiveBack(r) ==
  /\ pc[r] = "r_back"
  /\ \E m \in back : msg' = [msg EXCEPT ![r] = m]
  /\ pc' = [pc EXCEPT ![r] = "r_pop"]
  /\ UNCHANGED <<_messages, _mutex, _condition, _currentPhase, arg, currPhase, observed, lastSent>>

\* line 20: _messages.pop_back()
ReceivePop(r) ==
  /\ pc[r] = "r_pop"
  /\ _messages' \in pop_back
  /\ pc' = [pc EXCEPT ![r] = "r_ret"]
  /\ UNCHANGED <<_mutex, _condition, _currentPhase, arg, msg, currPhase, observed, lastSent>>

\* a return that leaves the mutex locked
ReceiveReturnLocked(r) ==
  /\ pc[r] = "r_ret"
  /\ currPhase' = [currPhase EXCEPT ![r] = msg[r]]
  /\ msg' = [msg EXCEPT ![r] = NoMsg]
  /\ pc' = [pc EXCEPT ![r] = "returned"]
  /\ UNCHANGED <<_messages, _mutex, _condition, _currentPhase, arg, observed, lastSent>>

\* lines 21-22: return msg; ulock's destructor releases the mutex
ReceiveReturn(r) ==
  /\ pc[r] = "r_ret"
  /\ _mutex' = NoThread
  /\ currPhase' = [currPhase EXCEPT ![r] = msg[r]]
  /\ msg' = [msg EXCEPT ![r] = NoMsg]
  /\ pc' = [pc EXCEPT ![r] = "returned"]
  /\ UNCHANGED <<_messages, _condition, _currentPhase, arg, observed, lastSent>>

receive(r) ==
  \/ ReceiveLock(r)
  \/ ReceivePred(r)
  \/ SpuriousWakeup(r)
  \/ ReceiveRelock(r)
  \/ ReceiveBack(r)
  \/ ReceivePop(r)
  \/ ReceiveReturn(r)

\* ------------------------------------------------------------------ MessageQueue<T>::send
\* line 31: std::lock_guard<std::mutex> ulock(_mutex)
SendLock ==
  /\ pc[Snd] = "s_lock"
  /\ _mutex = NoThread
  /\ _mutex' = Snd
  /\ pc' = [pc EXCEPT ![Snd] = "s_push"]
  /\ UNCHANGED <<_messages, _condition, _currentPhase, arg, msg, currPhase, observed, lastSent>>

\* line 34: _messages.push_back(std::move(msg))
SendPush ==
  /\ pc[Snd] = "s_push"
  /\ _messages' = push_back(arg)
  /\ lastSent' = arg
  /\ arg' = NoMsg
  /\ pc' = [pc EXCEPT ![Snd] = "s_notify"]
  /\ UNCHANGED <<_mutex, _condition, _currentPhase, msg, currPhase, observed>>

\* a send that forgets to notify
SendNotifyNobody ==
  /\ pc[Snd] = "s_notify"
  /\ pc' = [pc EXCEPT ![Snd] = "s_unlock"]
  /\ UNCHANGED <<_messages, _mutex, _condition, _currentPhase, arg, msg, currPhase, observed, lastSent>>

\* line 35: _condition.notify_one() wakes one blocked thread, if there is one
SendNotify ==
  /\ pc[Snd] = "s_notify"
  /\ IF _condition = {}
       THEN pc' = [pc EXCEPT ![Snd] = "s_unlock"]
       ELSE \E w \in _condition :
              pc' = [pc EXCEPT ![Snd] = "s_unlock", ![w] = "r_woken"]
  /\ _condition' = {w \in _condition : pc'[w] = "r_wait"}
  /\ UNCHANGED <<_messages, _mutex, _currentPhase, arg, msg, currPhase, observed, lastSent>>

\* line 36: ulock's destructor releases the mutex; send returns
SendUnlock ==
  /\ pc[Snd] = "s_unlock"
  /\ _mutex' = NoThread
  /\ pc' = [pc EXCEPT ![Snd] = "s_done"]
  /\ UNCHANGED <<_messages, _condition, _currentPhase, arg, msg, currPhase, observed, lastSent>>

send ==
  \/ SendLock
  \/ SendPush
  \/ SendNotify
  \/ SendUnlock

\* ------------------------------------------------------------------ MessageQueue<T>::clear
\* line 42: _messages.clear(), executed by thread Cyc with no lock taken
clear == <<>>

\* ------------------------------------------------------------------ TrafficLight::waitForGreen
\* line 53: a thread calls waitForGreen()
WaitForGreenCall(r) ==
  /\ pc[r] = "idle"
  /\ pc' = [pc EXCEPT ![r] = "w_sleep"]
  /\ UNCHANGED <<_messages, _mutex, _condition, _currentPhase, arg, msg, currPhase, observed, lastSent>>

\* lines 60-62: sleep_for(1ms), then call _msgQueue->receive()
WaitSleep(r) ==
  /\ pc[r] = "w_sleep"
  /\ pc' = [pc EXCEPT ![r] = "r_lock"]
  /\ UNCHANGED <<_messages, _mutex, _condition, _currentPhase, arg, msg, currPhase, observed, lastSent>>

\* a test that breaks out of the loop on red
RedReceived(r) == currPhase[r].v = Red

\* lines 63-66: break out of the loop on green, otherwise loop
GreenReceived(r) == currPhase[r].v = Green

WaitTest(r) ==
  /\ pc[r] = "returned"
  /\ pc' = [pc EXCEPT ![r] = IF GreenReceived(r) THEN "w_done" ELSE "w_sleep"]
  /\ currPhase' = [currPhase EXCEPT ![r] = IF GreenReceived(r) THEN @ ELSE NoMsg]
  /\ UNCHANGED <<_messages, _mutex, _condition, _currentPhase, arg, msg, observed, lastSent>>

waitForGreen(r) ==
  \/ WaitForGreenCall(r)
  \/ WaitSleep(r)
  \/ receive(r)
  \/ WaitTest(r)

\* ------------------------------------------------------------------ TrafficLight::getCurrentPhase
\* a getCurrentPhase() that takes the queue's mutex to read the phase
getCurrentPhaseLocked(r) ==
  /\ pc[r] \in {"idle", "w_done"}
  /\ _mutex = NoThread
  /\ observed' = [observed EXCEPT ![r] = _currentPhase]
  /\ UNCHANGED <<_messages, _mutex, _condition, _currentPhase, pc, arg, msg, currPhase, lastSent>>

\* lines 70-73: return _currentPhase, read with no lock taken, by a thread that
\* is not inside waitForGreen()
getCurrentPhase(r) ==
  /\ pc[r] \in {"idle", "w_done"}
  /\ observed' = [observed EXCEPT ![r] = _currentPhase]
  /\ UNCHANGED <<_messages, _mutex, _condition, _currentPhase, pc, arg, msg, currPhase, lastSent>>

\* ------------------------------------------------------------------ TrafficLight::simulate
\* line 78: start cycleThroughPhases in a thread
simulate ==
  /\ pc[Cyc] = "off"
  /\ pc' = [pc EXCEPT ![Cyc] = "poll"]
  /\ UNCHANGED <<_messages, _mutex, _condition, _currentPhase, arg, msg, currPhase, observed, lastSent>>

\* ------------------------------------------------------------------ TrafficLight::cycleThroughPhases
\* lines 95-105: the loop polls the elapsed time; once the cycle duration has
\* passed it toggles _currentPhase (an iteration that finds the duration not
\* yet passed changes nothing)
CycleToggle ==
  /\ pc[Cyc] = "poll"
  /\ _currentPhase' = Toggle(_currentPhase)
  /\ pc' = [pc EXCEPT ![Cyc] = "clear"]
  /\ UNCHANGED <<_messages, _mutex, _condition, arg, msg, currPhase, observed, lastSent>>

\* line 109: _msgQueue->clear()
CycleClear ==
  /\ pc[Cyc] = "clear"
  /\ _messages' = clear
  /\ pc' = [pc EXCEPT ![Cyc] = "async"]
  /\ UNCHANGED <<_mutex, _condition, _currentPhase, arg, msg, currPhase, observed, lastSent>>

\* a send of the phase the light had before the toggle
PhaseBeforeToggle == Toggle(_currentPhase)

\* line 110: the argument std::move(_currentPhase)
SentPhase == _currentPhase

\* line 110: std::async(std::launch::async, &MessageQueue::send, _msgQueue,
\* std::move(_currentPhase)): the argument is copied in the calling thread
CycleAsync ==
  /\ pc[Cyc] = "async"
  /\ FreeIds # {}
  /\ arg' = [v |-> SentPhase, id |-> FreshId]
  /\ pc' = [pc EXCEPT ![Cyc] = "wait", ![Snd] = "s_lock"]
  /\ UNCHANGED <<_messages, _mutex, _condition, _currentPhase, msg, currPhase, observed, lastSent>>

\* a cycle that goes on without waiting for its send
CycleNoWait ==
  /\ pc[Cyc] = "wait"
  /\ pc' = [pc EXCEPT ![Cyc] = "poll"]
  /\ UNCHANGED <<_messages, _mutex, _condition, _currentPhase, arg, msg, currPhase, observed, lastSent>>

\* line 111: sent.wait()
CycleWait ==
  /\ pc[Cyc] = "wait"
  /\ pc[Snd] = "s_done"
  /\ pc' = [pc EXCEPT ![Cyc] = "poll"]
  /\ UNCHANGED <<_messages, _mutex, _condition, _currentPhase, arg, msg, currPhase, observed, lastSent>>

cycleThroughPhases ==
  \/ CycleToggle
  \/ CycleClear
  \/ CycleAsync
  \/ CycleWait

\* ------------------------------------------------------------------ callers of the queue
\* a producer thread calls send(v) (line 25)
ProducerSend(v) ==
  /\ pc[Cyc] = "off"
  /\ pc[Snd] \in {"s_idle", "s_done"}
  /\ FreeIds # {}
  /\ arg' = [v |-> v, id |-> FreshId]
  /\ pc' = [pc EXCEPT ![Snd] = "s_lock"]
  /\ UNCHANGED <<_messages, _mutex, _condition, _currentPhase, msg, currPhase, observed, lastSent>>

\* the producer thread calls clear() (line 39), between two of its sends
ProducerClear ==
  /\ pc[Cyc] = "off"
  /\ pc[Snd] \in {"s_idle", "s_done"}
  /\ _messages' = clear
  /\ UNCHANGED <<_mutex, _condition, _currentPhase, pc, arg, msg, currPhase, observed, lastSent>>

\* a consumer thread calls receive() (line 8), for the first time or again
ConsumerCall(r) ==
  /\ pc[r] \in {"idle", "returned"}
  /\ pc' = [pc EXCEPT ![r] = "r_lock"]
  /\ currPhase' = [currPhase EXCEPT ![r] = NoMsg]
  /\ UNCHANGED <<_messages, _mutex, _condition, _currentPhase, arg, msg, observed, lastSent>>

\* ------------------------------------------------------------------ labels
NoCount == UNCHANGED count

\* the step is the return of receive() by thread r
Returns(r) == pc[r] = "r_ret" /\ pc'[r] = "returned"

\* nSend counts the sends that have returned, nRecv the receives that have;
\* pushed records what was inserted
CountCalls ==
  /\ nSend' = nSend + (IF pc[Snd] = "s_unlock" /\ pc'[Snd] = "s_done" THEN 1 ELSE 0)
  /\ nRecv' = nRecv + Cardinality({r \in Receivers : Returns(r)})
  /\ pushed' = IF pc[Snd] = "s_push" /\ pc'[Snd] = "s_notify"
                 THEN pushed \cup {arg} ELSE pushed

\* received records what was returned
Log ==
  received' = IF \E r \in Receivers : Returns(r)
                THEN Append(received, currPhase'[CHOOSE r \in Receivers : Returns(r)])
                ELSE received

\* a step of send or receive
Count == CountCalls /\ UNCHANGED <<received, cleared, atCall, cycle>>

\* a step of send or receive, what is returned recorded
CountLog == CountCalls /\ Log /\ UNCHANGED <<cleared, atCall, cycle>>

\* the step is a completed clear(): everything inserted so far is from before it
CountClear ==
  /\ CountCalls
  /\ cleared' = [done |-> TRUE, old |-> pushed]
  /\ UNCHANGED <<received, atCall, cycle>>

\* the step is r's call of receive()
CountCall(r) ==
  /\ CountCalls
  /\ atCall' = [atCall EXCEPT ![r] = cleared]
  /\ UNCHANGED <<received, cleared, cycle>>

\* a step of the controller: cycle restarts at a toggle and counts, up to
\* MaxEvents, the clears, the sends started and the sends completed since
CountCycle ==
  /\ cycle' =
       IF _currentPhase' # _currentPhase
         THEN [toggled |-> TRUE, clears |-> 0, sends |-> 0, dones |-> 0]
       ELSE IF pc[Cyc] = "clear" /\ pc'[Cyc] = "async"
         THEN [cycle EXCEPT !.clears = Min(@ + 1, MaxEvents)]
       ELSE IF arg' \notin {arg, NoMsg}
         THEN [cycle EXCEPT !.sends = Min(@ + 1, MaxEvents)]
       ELSE IF pc[Snd] = "s_unlock" /\ pc'[Snd] = "s_done"
         THEN [cycle EXCEPT !.dones = Min(@ + 1, MaxEvents)]
       ELSE cycle
  /\ UNCHANGED <<nSend, nRecv, pushed, received, cleared, atCall>>

FirstReceiver == <<"rcv", 1>>

\* ------------------------------------------------------------------ the controller
\* one TrafficLight: simulate() called at most once, every receiver thread a
\* caller of waitForGreen()
Next ==
  \/ simulate /\ NoCount
  \/ CycleToggle /\ NoCount
  \/ CycleClear /\ NoCount
  \/ CycleAsync /\ NoCount
  \/ CycleWait /\ NoCount
  \/ SendLock /\ NoCount
  \/ SendPush /\ NoCount
  \/ SendNotify /\ NoCount
  \/ SendUnlock /\ NoCount
  \/ \E r \in Receivers : WaitForGreenCall(r) /\ NoCount
  \/ \E r \in Receivers : WaitSleep(r) /\ NoCount
  \/ \E r \in Receivers : ReceiveLock(r) /\ NoCount
  \/ \E r \in Receivers : ReceivePred(r) /\ NoCount
  \/ \E r \in Receivers : SpuriousWakeup(r) /\ NoCount
  \/ \E r \in Receivers : ReceiveRelock(r) /\ NoCount
  \/ \E r \in Receivers : ReceiveBack(r) /\ NoCount
  \/ \E r \in Receivers : ReceivePop(r) /\ NoCount
  \/ \E r \in Receivers : ReceiveReturn(r) /\ NoCount
  \/ \E r \in Receivers : WaitTest(r) /\ NoCount

Spec == Init /\ [][Next]_vars

\* ------------------------------------------------------------------ the queue alone
\* one MessageQueue: a producer that calls send and clear, MaxSends sends at
\* most, and every receiver thread a consumer that keeps calling receive (no
\* new call once MaxSends + 1 receives have returned)
NextQueue ==
  \/ \E v \in Phase : ProducerSend(v) /\ nSend < MaxSends /\ Count
  \/ ProducerClear /\ CountClear
  \/ SendLock /\ Count
  \/ SendPush /\ Count
  \/ SendNotify /\ Count
  \/ SendUnlock /\ Count
  \/ \E r \in Receivers : ConsumerCall(r) /\ nRecv <= MaxSends /\ CountCall(r)
  \/ \E r \in Receivers : ReceiveLock(r) /\ Count
  \/ \E r \in Receivers : ReceivePred(r) /\ Count
  \/ \E r \in Receivers : SpuriousWakeup(r) /\ Count
  \/ \E r \in Receivers : ReceiveRelock(r) /\ Count
  \/ \E r \in Receivers : ReceiveBack(r) /\ Count
  \/ \E r \in Receivers : ReceivePop(r) /\ Count
  \/ \E r \in Receivers : ReceiveReturn(r) /\ Count

SpecQueue == Init /\ [][NextQueue]_vars

\* one producer that only sends, one consumer, no clear()
NextPC ==
  \/ \E v \in Phase : ProducerSend(v) /\ nSend < MaxSends /\ CountLog
  \/ SendLock /\ CountLog
  \/ SendPush /\ CountLog
  \/ SendNotify /\ CountLog
  \/ SendUnlock /\ CountLog
  \/ ConsumerCall(FirstReceiver) /\ nRecv <= MaxSends /\ CountLog
  \/ ReceiveLock(FirstReceiver) /\ CountLog
  \/ ReceivePred(FirstReceiver) /\ CountLog
  \/ SpuriousWakeup(FirstReceiver) /\ CountLog
  \/ ReceiveRelock(FirstReceiver) /\ CountLog
  \/ ReceiveBack(FirstReceiver) /\ CountLog
  \/ ReceivePop(FirstReceiver) /\ CountLog
  \/ ReceiveReturn(FirstReceiver) /\ CountLog

SpecPC == Init /\ [][NextPC]_vars

\* the same, the producer sending for as long as it likes, whenever fewer than
\* MaxPending values are pending (labels are reused once their element is
\* gone), and the scheduler fair: a thread that can take a step takes it, and a
\* thread that asks for the mutex again and again gets it
NextPCFair ==
  \/ \E v \in Phase : ProducerSend(v) /\ Len(_messages) < MaxPending /\ NoCount
  \/ SendLock /\ NoCount
  \/ SendPush /\ NoCount
  \/ SendNotify /\ NoCount
  \/ SendUnlock /\ NoCount
  \/ ConsumerCall(FirstReceiver) /\ NoCount
  \/ ReceiveLock(FirstReceiver) /\ NoCount
  \/ ReceivePred(FirstReceiver) /\ NoCount
  \/ SpuriousWakeup(FirstReceiver) /\ NoCount
  \/ ReceiveRelock(FirstReceiver) /\ NoCount
  \/ ReceiveBack(FirstReceiver) /\ NoCount
  \/ ReceivePop(FirstReceiver) /\ NoCount
  \/ ReceiveReturn(FirstReceiver) /\ NoCount

FairSend ==
  /\ SF_vars(SendLock /\ NoCount)
  /\ WF_vars((SendPush \/ SendNotify \/ SendUnlock) /\ NoCount)

FairReceive(r) ==
  /\ SF_vars((ReceiveLock(r) \/ ReceiveRelock(r)) /\ NoCount)
  /\ WF_vars((ReceivePred(r) \/ ReceiveBack(r) \/ ReceivePop(r) \/ ReceiveReturn(r)) /\ NoCount)

SpecPCFair ==
  /\ Init
  /\ [][NextPCFair]_vars
  /\ FairSend
  /\ FairReceive(FirstReceiver)
  /\ WF_vars(ConsumerCall(FirstReceiver) /\ NoCount)

\* ------------------------------------------------------------------ one waiter, fair
\* one TrafficLight and a single caller of waitForGreen(), the scheduler fair:
\* the cycle duration passes again and again, every thread that can take a step
\* takes it, and a thread that asks for the mutex again and again gets it
NextOne ==
  \/ simulate /\ NoCount
  \/ CycleToggle /\ NoCount
  \/ CycleClear /\ NoCount
  \/ CycleAsync /\ NoCount
  \/ CycleWait /\ NoCount
  \/ SendLock /\ NoCount
  \/ SendPush /\ NoCount
  \/ SendNotify /\ NoCount
  \/ SendUnlock /\ NoCount
  \/ WaitForGreenCall(FirstReceiver) /\ NoCount
  \/ WaitSleep(FirstReceiver) /\ NoCount
  \/ ReceiveLock(FirstReceiver) /\ NoCount
  \/ ReceivePred(FirstReceiver) /\ NoCount
  \/ SpuriousWakeup(FirstReceiver) /\ NoCount
  \/ ReceiveRelock(FirstReceiver) /\ NoCount
  \/ ReceiveBack(FirstReceiver) /\ NoCount
  \/ ReceivePop(FirstReceiver) /\ NoCount
  \/ ReceiveReturn(FirstReceiver) /\ NoCount
  \/ WaitTest(FirstReceiver) /\ NoCount

FairCycle == WF_vars(cycleThroughPhases /\ NoCount)

FairWait(r) ==
  /\ FairReceive(r)
  /\ WF_vars((WaitSleep(r) \/ WaitTest(r)) /\ NoCount)

SpecOneFair ==
  /\ Init
  /\ [][NextOne]_vars
  /\ FairCycle
  /\ FairSend
  /\ FairWait(FirstReceiver)

\* ------------------------------------------------------------------ one caller of everything
\* one TrafficLight and one thread that calls getCurrentPhase() whenever it
\* likes, before, instead of and after its call of waitForGreen()
NextGet ==
  \/ simulate /\ NoCount
  \/ CycleToggle /\ NoCount
  \/ CycleClear /\ NoCount
  \/ CycleAsync /\ NoCount
  \/ CycleWait /\ NoCount
  \/ SendLock /\ NoCount
  \/ SendPush /\ NoCount
  \/ SendNotify /\ NoCount
  \/ SendUnlock /\ NoCount
  \/ WaitForGreenCall(FirstReceiver) /\ NoCount
  \/ WaitSleep(FirstReceiver) /\ NoCount
  \/ ReceiveLock(FirstReceiver) /\ NoCount
  \/ ReceivePred(FirstReceiver) /\ NoCount
  \/ SpuriousWakeup(FirstReceiver) /\ NoCount
  \/ ReceiveRelock(FirstReceiver) /\ NoCount
  \/ ReceiveBack(FirstReceiver) /\ NoCount
  \/ ReceivePop(FirstReceiver) /\ NoCount
  \/ ReceiveReturn(FirstReceiver) /\ NoCount
  \/ WaitTest(FirstReceiver) /\ NoCount
  \/ getCurrentPhase(FirstReceiver) /\ NoCount

SpecGet == Init /\ [][NextGet]_vars

\* ------------------------------------------------------------------ the cycles counted
\* one TrafficLight and one caller of waitForGreen(), the clears and sends of
\* every cycle counted
NextCycle ==
  \/ simulate /\ CountCycle
  \/ CycleToggle /\ CountCycle
  \/ CycleClear /\ CountCycle
  \/ CycleAsync /\ CountCycle
  \/ CycleWait /\ CountCycle
  \/ SendLock /\ CountCycle
  \/ SendPush /\ CountCycle
  \/ SendNotify /\ CountCycle
  \/ SendUnlock /\ CountCycle
  \/ WaitForGreenCall(FirstReceiver) /\ CountCycle
  \/ WaitSleep(FirstReceiver) /\ CountCycle
  \/ ReceiveLock(FirstReceiver) /\ CountCycle
  \/ ReceivePred(FirstReceiver) /\ CountCycle
  \/ SpuriousWakeup(FirstReceiver) /\ CountCycle
  \/ ReceiveRelock(FirstReceiver) /\ CountCycle
  \/ ReceiveBack(FirstReceiver) /\ CountCycle
  \/ ReceivePop(FirstReceiver) /\ CountCycle
  \/ ReceiveReturn(FirstReceiver) /\ CountCycle
  \/ WaitTest(FirstReceiver) /\ CountCycle

SpecCycle == Init /\ [][NextCycle]_vars

\* ------------------------------------------------------------------ several consumers
\* one MessageQueue, a producer that sends MaxShared values at most and never
\* clears, and every receiver thread a consumer that keeps calling receive();
\* what is sent and what is returned is recorded, and the scheduler is fair
NextMC ==
  \/ \E v \in Phase : ProducerSend(v) /\ nSend < MaxShared /\ CountLog
  \/ SendLock /\ CountLog
  \/ SendPush /\ CountLog
  \/ SendNotify /\ CountLog
  \/ SendUnlock /\ CountLog
  \/ \E r \in Receivers : ConsumerCall(r) /\ CountLog
  \/ \E r \in Receivers : ReceiveLock(r) /\ CountLog
  \/ \E r \in Receivers : ReceivePred(r) /\ CountLog
  \/ \E r \in Receivers : SpuriousWakeup(r) /\ CountLog
  \/ \E r \in Receivers : ReceiveRelock(r) /\ CountLog
  \/ \E r \in Receivers : ReceiveBack(r) /\ CountLog
  \/ \E r \in Receivers : ReceivePop(r) /\ CountLog
  \/ \E r \in Receivers : ReceiveReturn(r) /\ CountLog

FairSendLog ==
  /\ SF_vars(SendLock /\ CountLog)
  /\ WF_vars((SendPush \/ SendNotify \/ SendUnlock) /\ CountLog)

FairReceiveLog(r) ==
  /\ SF_vars((ReceiveLock(r) \/ ReceiveRelock(r)) /\ CountLog)
  /\ WF_vars((ReceivePred(r) \/ ReceiveBack(r) \/ ReceivePop(r) \/ ReceiveReturn(r)) /\ CountLog)
  /\ WF_vars(ConsumerCall(r) /\ CountLog)

SpecMCFair ==
  /\ Init
  /\ [][NextMC]_vars
  /\ FairSendLog
  /\ \A r \in Receivers : FairReceiveLog(r)

\* ------------------------------------------------------------------ C1
\* C1: receive() never returns while the container is empty: in every reachable
\* state the number of receive() calls that have returned is at most the number
\* of send() calls that have completed (a receive() with no pending item stays
\* blocked until a send() occurs).
C1_ReceivesAtMostSends == nRecv <= nSend

\* ------------------------------------------------------------------ C2
\* C2: with one producer, one consumer and no clear(), no value is returned by
\* receive() more than once, and every value returned was inserted by a send()
\* that had already happened.
C2_OnceAndAfterSend ==
  /\ \A i, j \in 1..Len(received) : i # j => received[i].id # received[j].id
  /\ \A i \in 1..Len(received) : received[i] \in pushed

\* some sent value has been received while a later one is still pending
C2_Witness ==
  /\ Len(received) >= 2
  /\ _messages # <<>>

\* ------------------------------------------------------------------ C3
Pending(i) == i \in IdsOf(_messages)

\* C3 as stated: with one producer and one consumer that keeps calling
\* receive() (no clear(), fair scheduling), every value sent is eventually
\* received, also while the producer keeps sending.
C3_EverySentReceived == \A i \in Ids : Pending(i) ~> ~Pending(i)

\* a call of send() is in progress
Sending == pc[Snd] \in {"s_lock", "s_push", "s_notify", "s_unlock"}

\* C3 as amended: a pending value is eventually received unless the producer
\* sends again first (receive() takes the most recent value, so an older one
\* waits for as long as newer ones keep arriving).
C3_ReceivedUnlessOvertaken ==
  \A i \in Ids : Pending(i) ~> (~Pending(i) \/ Sending)

\* the consumer has just been handed a value while an older one is pending
C3_Witness ==
  /\ pc[FirstReceiver] = "returned"
  /\ currPhase[FirstReceiver].id = lastSent.id
  /\ _messages # <<>>

\* ------------------------------------------------------------------ C4
\* C4: clear() discards every pending value: a receive() that starts after a
\* clear() has completed returns only after a send() that came after that
\* clear, and never a value sent before it (send(red), clear(), send(green),
\* receive() yields green, never red).
C4_ClearDiscardsPending ==
  \A r \in Receivers :
    (pc[r] = "returned" /\ atCall[r].done) =>
      /\ pushed \ atCall[r].old # {}
      /\ currPhase[r] \notin atCall[r].old

\* ------------------------------------------------------------------ C5
\* C5: waitForGreen() returns only at a step where its receive() has returned
\* green: a red value handed to it never makes it return, and without a green
\* one (thus while simulate() has not been called) it does not return.
C5_ReturnsOnlyOnGreen ==
  /\ [](pc[Cyc] = "off" => \A r \in Receivers : pc[r] # "w_done")
  /\ [][\A r \in Receivers :
          /\ (pc[r] # "w_done" /\ pc'[r] = "w_done") =>
                (pc[r] = "returned" /\ currPhase[r].v = Green)
          /\ (pc[r] = "returned" /\ currPhase[r].v = Red) => pc'[r] # "w_done"]_vars

\* one caller has returned while another has just been handed red
C5_Witness ==
  \E r, q \in Receivers :
    /\ pc[r] = "w_done"
    /\ pc[q] = "returned"
    /\ currPhase[q].v = Red

\* ------------------------------------------------------------------ C6
\* the step is the toggle of line 105
Toggles == pc[Cyc] = "poll" /\ pc'[Cyc] = "clear"

\* the step is the push_back of a send
Pushes == pc[Snd] = "s_push" /\ pc'[Snd] = "s_notify"

\* C6: from the initial phase red the cycling thread toggles the phase strictly
\* alternately, no toggle leaving it unchanged, and the values it sends
\* alternate, the first one being green.
C6_PhasesAlternate ==
  /\ [](pc[Cyc] = "off" => _currentPhase = Red)
  /\ [][/\ Toggles => (_currentPhase' # _currentPhase /\ _currentPhase' \in Phase)
        /\ Pushes => /\ arg.v \in Phase
                     /\ arg.v # lastSent.v
                     /\ lastSent = NoMsg => arg.v = Green]_vars

\* green is about to be sent for the second time
C6_Witness ==
  /\ pc[Snd] = "s_push"
  /\ arg.v = Green
  /\ lastSent.v = Red

\* ------------------------------------------------------------------ C7
\* simulate() has been called and one thread is inside waitForGreen()
Started == pc[Cyc] # "off" /\ pc[FirstReceiver] \notin {"idle", "w_done"}

\* the step is a clear() that removes a green value nobody has popped
ClearsGreen ==
  /\ pc[Cyc] = "clear"
  /\ pc'[Cyc] = "async"
  /\ \E i \in 1..Len(_messages) : _messages[i].v = Green

\* C7 as stated: once simulate() has been called, a single waitForGreen() call
\* eventually returns under fair scheduling.
C7_WaitForGreenReturns == Started ~> (pc[FirstReceiver] = "w_done")

\* C7 as amended: it eventually returns unless the cycling thread's clear()
\* again and again removes the green value before the waiter has popped it.
C7_ReturnsUnlessGreenCleared ==
  \/ Started ~> (pc[FirstReceiver] = "w_done")
  \/ []<><<ClearsGreen>>_vars

\* the waiter returns on the first green that is sent
C7_Witness ==
  /\ pc[FirstReceiver] = "w_done"
  /\ lastSent = currPhase[FirstReceiver]
  /\ _currentPhase = Green

\* ------------------------------------------------------------------ C8
\* the step is the return of waitForGreen() to its caller
WaitReturns(r) == pc[r] # "w_done" /\ pc'[r] = "w_done"

\* the cycling thread has not toggled since the last push_back
NotToggledSinceSend ==
  \/ pc[Cyc] = "poll"
  \/ pc[Cyc] = "wait" /\ pc[Snd] \in {"s_notify", "s_unlock", "s_done"}

\* C8 as stated: whenever waitForGreen() returns, the current phase is green at
\* that moment.
C8_GreenAtReturn ==
  [][\A r \in Receivers : WaitReturns(r) => _currentPhase' = Green]_vars

\* C8 as amended: the current phase is green when waitForGreen() returns
\* provided the cycling thread has not toggled again since it sent the value
\* the caller received.
C8_GreenAtReturnUnlessToggled ==
  [][\A r \in Receivers :
       (WaitReturns(r) /\ currPhase[r] = lastSent /\ NotToggledSinceSend)
         => _currentPhase' = Green]_vars

\* a caller has returned with the value of the last send, before the next toggle
C8_Witness ==
  \E r \in Receivers :
    /\ pc[r] = "w_done"
    /\ currPhase[r] = lastSent
    /\ NotToggledSinceSend
    /\ pc[Snd] = "s_done"

\* ------------------------------------------------------------------ C9
Threads == {Cyc, Snd} \cup Receivers

\* the next step of thread t reads or writes _messages
Accessing(t) ==
  \/ t \in Receivers /\ pc[t] \in {"r_pred", "r_back", "r_pop"}
  \/ t = Snd /\ pc[t] = "s_push"
  \/ t = Cyc /\ pc[t] = "clear"

\* C9: every read or write of the container by send(), receive() and clear()
\* happens while the executing thread holds the queue's mutex, so no two
\* threads are ever accessing the container at the same time.
C9_ContainerUnderMutex ==
  /\ \A t \in Threads : Accessing(t) => _mutex = t
  /\ \A t, u \in Threads : (Accessing(t) /\ Accessing(u)) => t = u

\* ------------------------------------------------------------------ C10
\* C10: with one cycling thread and any number of waitForGreen() callers the
\* queue holds at most one pending value in every reachable state.
C10_AtMostOnePending == Len(_messages) <= 1

\* ------------------------------------------------------------------ C11
\* the step is r's read of the last element (line 19)
ReadsBack(r) == pc[r] = "r_back" /\ pc'[r] = "r_pop"

\* the step is r's removal of the last element (line 20)
Pops(r) == pc[r] = "r_pop" /\ pc'[r] = "r_ret"

\* C11: when the container holds several values, receive() takes the one at the
\* back, which is the most recently sent of those it holds, removes exactly
\* that one, returns it, and leaves the others in their order.
C11_LastInFirstOut ==
  [][\A r \in Receivers :
       /\ (ReadsBack(r) /\ Len(_messages) >= 2) =>
             /\ msg'[r] = Last(_messages)
             /\ \A i \in 1..Len(_messages) : _messages[i].id <= msg'[r].id
       /\ (Pops(r) /\ Len(_messages) >= 2) =>
             /\ msg[r] = Last(_messages)
             /\ _messages' = Front(_messages)
       /\ Returns(r) => currPhase'[r] = msg[r]]_vars

\* a receive() is about to return the newest of three values, two older ones
\* staying behind
C11_Witness ==
  /\ pc[FirstReceiver] = "r_ret"
  /\ Len(_messages) >= 2
  /\ msg[FirstReceiver] = lastSent

\* ------------------------------------------------------------------ C12
\* C12: within a single controller every value returned by receive() is the
\* value of the most recent completed send (no notification is received after
\* a later one has been sent).
C12_ReturnsLatestSend ==
  [][\A r \in Receivers : Returns(r) => currPhase'[r] = lastSent]_vars

\* ------------------------------------------------------------------ C13
\* C13: once simulate() has started the cycling thread, the phase is toggled
\* again and again for ever under fair scheduling, whether the waiter never
\* calls, is blocked in receive(), or has returned: the cycling thread reaches
\* no terminal or permanently blocked state.
C13_TogglesForever ==
  \/ [](pc[Cyc] = "off")
  \/ []<><<Toggles>>_vars

\* the second toggle has happened and nobody has ever called waitForGreen()
C13_Witness ==
  /\ pc[Cyc] = "clear"
  /\ _currentPhase = Red
  /\ lastSent.v = Green
  /\ pc[FirstReceiver] = "idle"

\* ------------------------------------------------------------------ C14
\* C14: the emptiness check of receive() and its removal of the last element
\* are atomic with respect to every other queue operation, a concurrent
\* clear() included: whenever a thread is about to run back() or pop_back()
\* the container is not empty.
C14_NeverOnEmpty ==
  \A r \in Receivers : pc[r] \in {"r_back", "r_pop"} => ~empty

\* ------------------------------------------------------------------ C15
\* send() holds the mutex
InSend == pc[Snd] \in {"s_push", "s_notify", "s_unlock"}

\* C15: send() always completes (fair scheduling): a receiver waiting in
\* receive() does not hold the mutex, so it never blocks the sender; and from
\* the moment send() has the lock until it returns the container changes only
\* by its push_back, which makes it exactly one element longer.
C15_SendCompletes ==
  /\ [](\A r \in Receivers : pc[r] = "r_wait" => _mutex # r)
  /\ [][InSend => IF Pushes THEN _messages' = Append(_messages, arg)
                            ELSE _messages' = _messages]_vars
  /\ Sending ~> (pc[Snd] = "s_done")

\* the sender has pushed and notified the receiver that was waiting
C15_Witness ==
  /\ pc[Snd] = "s_unlock"
  /\ pc[FirstReceiver] = "r_woken"
  /\ Len(_messages) = 1

\* ------------------------------------------------------------------ C16
\* the receiver is inside a call of receive()
Receiving ==
  pc[FirstReceiver] \in {"r_lock", "r_pred", "r_wait", "r_woken", "r_back", "r_pop", "r_ret"}

\* C16: no missed wakeup (one receiver, no clear(), fair scheduling): the
\* receiver is blocked in the wait with the container non-empty only until the
\* sender's notify_one, and whenever the receiver is inside receive() and the
\* container is non-empty, that receive() eventually returns.
C16_NoMissedWakeup ==
  /\ []((pc[FirstReceiver] = "r_wait" /\ ~empty) => pc[Snd] = "s_notify")
  /\ (Receiving /\ ~empty) ~> (pc[FirstReceiver] = "returned")

\* a send() has completed that found the receiver blocked in the wait
C16_Witness ==
  /\ pc[Snd] = "s_done"
  /\ pc[FirstReceiver] = "r_woken"
  /\ _messages = <<lastSent>>

\* ------------------------------------------------------------------ C17
\* C17: with several threads calling receive() concurrently (no clear()), each
\* sent value is returned to exactly one of them: no element is returned
\* twice, what is returned had been pushed, never more receives have returned
\* than values were pushed (after one send onto an empty queue one receiver
\* returns, the others stay blocked), and under fair scheduling the k-th value
\* pushed is followed by a k-th return.
C17_ExactlyOneReceiver ==
  /\ [](/\ Len(received) <= Cardinality(pushed)
        /\ Cardinality({received[i].id : i \in 1..Len(received)}) = Len(received)
        /\ {received[i] : i \in 1..Len(received)} \subseteq pushed)
  /\ \A k \in 0..(MaxShared - 1) :
        (Cardinality(pushed) > k) ~> (Len(received) > k)

\* one send onto an empty queue: one receiver has returned its value, the
\* others are blocked in the wait
C17_Witness ==
  /\ Cardinality(pushed) = 1
  /\ Len(received) = 1
  /\ \E r \in Receivers :
        /\ pc[r] = "returned"
        /\ \A q \in Receivers \ {r} : pc[q] = "r_wait"

\* ------------------------------------------------------------------ C18
\* the step is r's call of getCurrentPhase()
Gets(r) == observed'[r] # observed[r]

\* C18: construction sets the current phase to red and only the toggle step of
\* the cycling thread changes it (no step of waitForGreen(), getCurrentPhase(),
\* simulate(), send(), receive() or clear() does); getCurrentPhase() returns
\* it, leaves the queue as it is, and never blocks: a thread can complete the
\* call whoever holds the mutex.
C18_PhaseWrittenByToggleOnly ==
  /\ [](pc[Cyc] = "off" => _currentPhase = Red)
  /\ [](pc[FirstReceiver] \in {"idle", "w_done"} => ENABLED getCurrentPhase(FirstReceiver))
  /\ [][/\ _currentPhase' # _currentPhase => Toggles
        /\ \A r \in Receivers :
             Gets(r) => /\ observed'[r] = _currentPhase
                        /\ UNCHANGED <<_messages, _mutex, _condition, _currentPhase>>]_vars

\* getCurrentPhase() has returned green while the sender holds the mutex
C18_Witness ==
  /\ observed[FirstReceiver] = Green
  /\ _currentPhase = Green
  /\ _mutex = Snd

\* ------------------------------------------------------------------ C19
\* C19: each cycle toggles, then clears, then sends, and the next toggle waits
\* for that send to complete: a clear comes after a toggle and before anything
\* else of its cycle, a send starts after the one clear of its cycle, a send
\* completes once, a toggle finds exactly one clear and one completed send
\* since the toggle before, and at most one send is in flight at any time.
C19_ToggleClearSend ==
  /\ [](cycle.sends - cycle.dones \in {0, 1})
  /\ [][/\ (_currentPhase' # _currentPhase /\ cycle.toggled) =>
               (cycle.clears = 1 /\ cycle.sends = 1 /\ cycle.dones = 1)
        /\ (pc[Cyc] = "clear" /\ pc'[Cyc] = "async") =>
               (cycle.toggled /\ cycle.clears = 0 /\ cycle.sends = 0)
        /\ (arg' \notin {arg, NoMsg}) =>
               (cycle.clears = 1 /\ cycle.sends = 0 /\ ~Sending)
        /\ (pc[Snd] = "s_unlock" /\ pc'[Snd] = "s_done") =>
               (cycle.sends = 1 /\ cycle.dones = 0)]_vars

\* the second toggle is due: one clear and one completed send since the first
C19_Witness ==
  /\ pc[Cyc] = "poll"
  /\ cycle = [toggled |-> TRUE, clears |-> 1, sends |-> 1, dones |-> 1]
  /\ _currentPhase = Red

\* ------------------------------------------------------------------ C20
\* the cycling thread is between two cycles (or not started): not between a
\* toggle and the completion of the send that follows it
BetweenCycles == pc[Cyc] \in {"off", "poll"}

\* C20: whenever the cycling thread is between two cycles and the queue is
\* non-empty, the queue holds a single value and that value is the current
\* phase.
C20_QueuedIsCurrentPhase ==
  (BetweenCycles /\ ~empty) =>
     (Len(_messages) = 1 /\ _messages[1].v = _currentPhase)

====
